---- MODULE Spec2Model ----
(***************************************************************************)
(* Hand gesture keyboard backend: the EMA smoother (ema_filter.py), the    *)
(* hand tracker with its calibration offset (hand_tracker.py), the gesture *)
(* recognizer with its pinch / fist / dwell state machines                 *)
(* (gesture_recognizer.py) and the hand-tracking loop (main.py).           *)
(*                                                                         *)
(* Number representation.  Coordinates are fixed-point integers in units   *)
(* of 1/1000 of the normalised frame.  Time is in ticks of 0.1 s.  A       *)
(* Euclidean distance sqrt(n) is represented exactly by its square n, and  *)
(* every comparison of distances is done on the squares.  dwell_progress   *)
(* is the numerator of a fraction whose denominator is dwell_time.         *)
(***************************************************************************)
EXTENDS Integers, Sequences, FiniteSets, TLC

\* ------------------------------------------------------------------------
\* Bounds of the model
\* ------------------------------------------------------------------------
\* Last clock value at which a cycle may start, when the recognizer is
\* driven with pinch, fist and dwell inputs.
MaxTimePinch == 4
MaxTimeFist == 11
MaxTimeDwell == 16
\* Largest clock advance between two cycles, in ticks.
MaxStepPinch == 2
MaxStepFist == 5
MaxStepDwell == 8
\* Last clock value at which a cycle may start when the clock ticks while
\* cycles run.
MaxTimeSkew == 1
\* Last clock value at which a cycle may start when the clock may be set back
\* between cycles.
MaxTimeRegress == 4
\* Number of iterations of the tracking loop, and of client messages the
\* loop handles.
MaxFrames == 3
MaxMessages == 2
\* Number of iterations that two concurrent sessions make together.
MaxSessionFrames == 2
\* Number of calls made on a smoother alone.
MaxCalls == 4
\* Clock bound and largest clock step between two cycles of the recognizer
\* driven with hands that pinch and make a fist at once.
MaxTimeGesture == 6
MaxStepGesture == 5
\* Clock bound for the recognizer driven with up to two hands per cycle.
MaxTimePair == 1
\* Number of calls made on the recognizer's detectors alone.
MaxDetectCalls == 2

\* ------------------------------------------------------------------------
\* Program constants
\* ------------------------------------------------------------------------
WRIST == 0
THUMB_TIP == 4
INDEX_TIP == 8
MIDDLE_TIP == 12
RING_TIP == 16
PINKY_TIP == 20
INDEX_MCP == 5
MIDDLE_MCP == 9
RING_MCP == 13
PINKY_MCP == 17

\* 0.05 of the frame, in 1/1000
pinch_threshold == 50
\* 0.1 s
pinch_hold_time == 1
\* 0.5 s
fist_hold_time == 5
\* 0.8 s
dwell_time == 8
\* 0.03 of the frame, in 1/1000
dwell_radius == 30
\* the fold test's multiplier 1.1 as FoldNum / FoldDen
FoldNum == 11
FoldDen == 10
max_num_hands == 2
num_points == 21

Labels == {"Left", "Right"}
FingerNames == <<"thumb", "index", "middle", "ring", "pinky">>
Fingers == {FingerNames[i] : i \in 1..5}
NonThumb == Fingers \ {"thumb"}
finger_map == [thumb |-> THUMB_TIP, index |-> INDEX_TIP, middle |-> MIDDLE_TIP,
               ring |-> RING_TIP, pinky |-> PINKY_TIP]

\* Python's None for a timestamp, and for an optional position or array.
NoTime == -1
NoValue == <<>>
Some(v) == <<v>>

\* ------------------------------------------------------------------------
\* A constructor argument the recognizer stores: GestureRecognizer(
\* fist_threshold=...), 0.08 by default.
\* ------------------------------------------------------------------------
VARIABLES fist_threshold

\* ------------------------------------------------------------------------
\* GestureRecognizer: state constructors
\* ------------------------------------------------------------------------
_init_finger_state ==
    [dwell_start_time |-> NoTime,
     dwell_position   |-> NoValue,
     pinch_start_time |-> NoTime,
     was_pinching     |-> FALSE]

_init_hand_state ==
    [fingers         |-> [f \in Fingers |-> _init_finger_state],
     fist_start_time |-> NoTime,
     was_fist        |-> FALSE]

\* ------------------------------------------------------------------------
\* GestureRecognizer: geometry
\* ------------------------------------------------------------------------
Sq(a) == a * a

RECURSIVE SumSq(_, _, _)
SumSq(p1, p2, n) ==
    IF n = 0 THEN 0 ELSE Sq(p1[n] - p2[n]) + SumSq(p1, p2, n - 1)

\* np.linalg.norm(p1 - p2), represented by its square.
_calculate_distance(p1, p2) == SumSq(p1, p2, Len(p1))

\* the numpy slice p[:2]
XY(p) == <<p[1], p[2]>>

\* _is_finger_folded measuring the distances in the image plane only
_is_finger_folded_in_plane(landmarks, tip_idx, mcp_idx) ==
    LET tip_to_wrist == _calculate_distance(XY(landmarks[tip_idx]),
                                            XY(landmarks[WRIST]))
        mcp_to_wrist == _calculate_distance(XY(landmarks[mcp_idx]),
                                            XY(landmarks[WRIST]))
    IN  Sq(FoldDen) * tip_to_wrist < Sq(FoldNum) * mcp_to_wrist

\* _is_finger_folded that takes a finger as folded when its tip is closer
\* than fist_threshold to its mcp joint
_is_finger_folded_by_threshold(landmarks, tip_idx, mcp_idx) ==
    _calculate_distance(landmarks[tip_idx], landmarks[mcp_idx])
      < Sq(fist_threshold)

\* tip_to_wrist < mcp_to_wrist * 1.1, on the squares
_is_finger_folded(landmarks, tip_idx, mcp_idx) ==
    LET tip          == landmarks[tip_idx]
        mcp          == landmarks[mcp_idx]
        wrist        == landmarks[WRIST]
        tip_to_wrist == _calculate_distance(tip, wrist)
        mcp_to_wrist == _calculate_distance(mcp, wrist)
    IN  Sq(FoldDen) * tip_to_wrist < Sq(FoldNum) * mcp_to_wrist

\* ------------------------------------------------------------------------
\* GestureRecognizer: detectors.  Each takes the part of self.states it
\* works on and the value time.time() returns in the call, and yields the
\* returned dict (out) and the part of the state after the call (st).
\* ------------------------------------------------------------------------
\* detect_pinch without the was_pinching guard on the trigger
detect_pinch_without_latch(state, landmarks, finger_name, tip_idx, current_time) ==
    IF finger_name = "thumb"
    THEN [out |-> [is_pinching |-> FALSE, pinch_triggered |-> FALSE],
          st  |-> state]
    ELSE
    LET distance    == _calculate_distance(XY(landmarks[THUMB_TIP]),
                                           XY(landmarks[tip_idx]))
        is_pinching == distance < Sq(pinch_threshold)
        fire        == /\ is_pinching
                       /\ state.pinch_start_time # NoTime
                       /\ current_time - state.pinch_start_time >= pinch_hold_time
        st1 == IF is_pinching
               THEN IF state.pinch_start_time = NoTime
                    THEN [state EXCEPT !.pinch_start_time = current_time]
                    ELSE IF fire
                         THEN [state EXCEPT !.was_pinching = TRUE]
                         ELSE state
               ELSE [state EXCEPT !.pinch_start_time = NoTime,
                                  !.was_pinching = FALSE]
    IN  [out |-> [is_pinching     |-> is_pinching,
                  pinch_triggered |-> fire,
                  distance        |-> distance],
         st  |-> st1]

\* detect_pinch whose release clears the latch but not the hold timer
detect_pinch_keeping_timer(state, landmarks, finger_name, tip_idx, current_time) ==
    IF finger_name = "thumb"
    THEN [out |-> [is_pinching |-> FALSE, pinch_triggered |-> FALSE],
          st  |-> state]
    ELSE
    LET distance    == _calculate_distance(XY(landmarks[THUMB_TIP]),
                                           XY(landmarks[tip_idx]))
        is_pinching == distance < Sq(pinch_threshold)
        fire        == /\ is_pinching
                       /\ state.pinch_start_time # NoTime
                       /\ current_time - state.pinch_start_time >= pinch_hold_time
                       /\ ~state.was_pinching
        st1 == IF is_pinching
               THEN IF state.pinch_start_time = NoTime
                    THEN [state EXCEPT !.pinch_start_time = current_time]
                    ELSE IF fire
                         THEN [state EXCEPT !.was_pinching = TRUE]
                         ELSE state
               ELSE [state EXCEPT !.was_pinching = FALSE]
    IN  [out |-> [is_pinching     |-> is_pinching,
                  pinch_triggered |-> fire,
                  distance        |-> distance],
         st  |-> st1]

\* detect_pinch that treats the thumb as it treats the other fingers
detect_pinch_thumb_included(state, landmarks, finger_name, tip_idx, current_time) ==
    LET thumb_tip   == landmarks[THUMB_TIP]
        finger_tip  == landmarks[tip_idx]
        distance    == _calculate_distance(XY(thumb_tip), XY(finger_tip))
        is_pinching == distance < Sq(pinch_threshold)
        fire        == /\ is_pinching
                       /\ state.pinch_start_time # NoTime
                       /\ current_time - state.pinch_start_time >= pinch_hold_time
                       /\ ~state.was_pinching
        st1 == IF is_pinching
               THEN IF state.pinch_start_time = NoTime
                    THEN [state EXCEPT !.pinch_start_time = current_time]
                    ELSE IF fire
                         THEN [state EXCEPT !.was_pinching = TRUE]
                         ELSE state
               ELSE [state EXCEPT !.pinch_start_time = NoTime,
                                  !.was_pinching = FALSE]
    IN  [out |-> [is_pinching     |-> is_pinching,
                  pinch_triggered |-> fire,
                  distance        |-> distance],
         st  |-> st1]

\* detect_pinch whose release clears the hold timer but not the latch
detect_pinch_keeping_latch(state, landmarks, finger_name, tip_idx, current_time) ==
    IF finger_name = "thumb"
    THEN [out |-> [is_pinching |-> FALSE, pinch_triggered |-> FALSE],
          st  |-> state]
    ELSE
    LET distance    == _calculate_distance(XY(landmarks[THUMB_TIP]),
                                           XY(landmarks[tip_idx]))
        is_pinching == distance < Sq(pinch_threshold)
        fire        == /\ is_pinching
                       /\ state.pinch_start_time # NoTime
                       /\ current_time - state.pinch_start_time >= pinch_hold_time
                       /\ ~state.was_pinching
        st1 == IF is_pinching
               THEN IF state.pinch_start_time = NoTime
                    THEN [state EXCEPT !.pinch_start_time = current_time]
                    ELSE IF fire
                         THEN [state EXCEPT !.was_pinching = TRUE]
                         ELSE state
               ELSE [state EXCEPT !.pinch_start_time = NoTime]
    IN  [out |-> [is_pinching     |-> is_pinching,
                  pinch_triggered |-> fire,
                  distance        |-> distance],
         st  |-> st1]

\* detect_pinch whose release restarts the finger's dwell as well
detect_pinch_restarting_dwell(state, landmarks, finger_name, tip_idx, current_time) ==
    IF finger_name = "thumb"
    THEN [out |-> [is_pinching |-> FALSE, pinch_triggered |-> FALSE],
          st  |-> state]
    ELSE
    LET distance    == _calculate_distance(XY(landmarks[THUMB_TIP]),
                                           XY(landmarks[tip_idx]))
        is_pinching == distance < Sq(pinch_threshold)
        fire        == /\ is_pinching
                       /\ state.pinch_start_time # NoTime
                       /\ current_time - state.pinch_start_time >= pinch_hold_time
                       /\ ~state.was_pinching
        st1 == IF is_pinching
               THEN IF state.pinch_start_time = NoTime
                    THEN [state EXCEPT !.pinch_start_time = current_time]
                    ELSE IF fire
                         THEN [state EXCEPT !.was_pinching = TRUE]
                         ELSE state
               ELSE [state EXCEPT !.pinch_start_time = NoTime,
                                  !.was_pinching = FALSE,
                                  !.dwell_start_time = current_time]
    IN  [out |-> [is_pinching     |-> is_pinching,
                  pinch_triggered |-> fire,
                  distance        |-> distance],
         st  |-> st1]

\* detect_pinch.  For the thumb it returns before it reads anything.
detect_pinch(state, landmarks, finger_name, tip_idx, current_time) ==
    IF finger_name = "thumb"
    THEN [out |-> [is_pinching |-> FALSE, pinch_triggered |-> FALSE],
          st  |-> state]
    ELSE
    LET thumb_tip   == landmarks[THUMB_TIP]
        finger_tip  == landmarks[tip_idx]
        distance    == _calculate_distance(XY(thumb_tip), XY(finger_tip))
        is_pinching == distance < Sq(pinch_threshold)
        fire        == /\ is_pinching
                       /\ state.pinch_start_time # NoTime
                       /\ current_time - state.pinch_start_time >= pinch_hold_time
                       /\ ~state.was_pinching
        st1 == IF is_pinching
               THEN IF state.pinch_start_time = NoTime
                    THEN [state EXCEPT !.pinch_start_time = current_time]
                    ELSE IF fire
                         THEN [state EXCEPT !.was_pinching = TRUE]
                         ELSE state
               ELSE [state EXCEPT !.pinch_start_time = NoTime,
                                  !.was_pinching = FALSE]
    IN  [out |-> [is_pinching     |-> is_pinching,
                  pinch_triggered |-> fire,
                  distance        |-> distance],
         st  |-> st1]

\* detect_fist whose release clears the hold timer but not the latch
detect_fist_keeping_latch(state, landmarks, current_time) ==
    LET is_fist == /\ _is_finger_folded(landmarks, INDEX_TIP, INDEX_MCP)
                   /\ _is_finger_folded(landmarks, MIDDLE_TIP, MIDDLE_MCP)
                   /\ _is_finger_folded(landmarks, RING_TIP, RING_MCP)
                   /\ _is_finger_folded(landmarks, PINKY_TIP, PINKY_MCP)
        fire    == /\ is_fist
                   /\ state.fist_start_time # NoTime
                   /\ current_time - state.fist_start_time >= fist_hold_time
                   /\ ~state.was_fist
        st1 == IF is_fist
               THEN IF state.fist_start_time = NoTime
                    THEN [state EXCEPT !.fist_start_time = current_time]
                    ELSE IF fire
                         THEN [state EXCEPT !.was_fist = TRUE]
                         ELSE state
               ELSE [state EXCEPT !.fist_start_time = NoTime]
    IN  [out |-> [is_fist |-> is_fist, fist_triggered |-> fire],
         st  |-> st1]

detect_fist(state, landmarks, current_time) ==
    LET fingers_folded ==
            <<_is_finger_folded(landmarks, INDEX_TIP, INDEX_MCP),
              _is_finger_folded(landmarks, MIDDLE_TIP, MIDDLE_MCP),
              _is_finger_folded(landmarks, RING_TIP, RING_MCP),
              _is_finger_folded(landmarks, PINKY_TIP, PINKY_MCP)>>
        is_fist == \A i \in 1..4 : fingers_folded[i]
        fire    == /\ is_fist
                   /\ state.fist_start_time # NoTime
                   /\ current_time - state.fist_start_time >= fist_hold_time
                   /\ ~state.was_fist
        st1 == IF is_fist
               THEN IF state.fist_start_time = NoTime
                    THEN [state EXCEPT !.fist_start_time = current_time]
                    ELSE IF fire
                         THEN [state EXCEPT !.was_fist = TRUE]
                         ELSE state
               ELSE [state EXCEPT !.fist_start_time = NoTime,
                                  !.was_fist = FALSE]
    IN  [out |-> [is_fist |-> is_fist, fist_triggered |-> fire],
         st  |-> st1]

Min(a, b) == IF a <= b THEN a ELSE b

\* detect_dwell that triggers only once the hold has lasted longer than
\* dwell_time
detect_dwell_late(state, tip_pos, current_time) ==
    LET here  == XY(tip_pos)
        moved == [state EXCEPT !.dwell_position = Some(here),
                               !.dwell_start_time = current_time]
        zero  == [dwell_progress |-> 0, dwell_triggered |-> FALSE]
    IN  IF state.dwell_position = NoValue
        THEN [out |-> zero, st |-> moved]
        ELSE IF _calculate_distance(state.dwell_position[1], here)
                  > Sq(dwell_radius)
        THEN [out |-> zero, st |-> moved]
        ELSE LET elapsed  == current_time - state.dwell_start_time
                 progress == Min(elapsed, dwell_time)
                 dwell_triggered == elapsed > dwell_time
             IN  [out |-> [dwell_progress  |-> progress,
                           dwell_triggered |-> dwell_triggered],
                  st  |-> IF dwell_triggered
                          THEN [state EXCEPT !.dwell_start_time = current_time]
                          ELSE state]

\* detect_dwell whose anchor follows the tip inside the radius
detect_dwell_following(state, tip_pos, current_time) ==
    LET here  == XY(tip_pos)
        moved == [state EXCEPT !.dwell_position = Some(here),
                               !.dwell_start_time = current_time]
        zero  == [dwell_progress |-> 0, dwell_triggered |-> FALSE]
    IN  IF state.dwell_position = NoValue
        THEN [out |-> zero, st |-> moved]
        ELSE IF _calculate_distance(state.dwell_position[1], here)
                  > Sq(dwell_radius)
        THEN [out |-> zero, st |-> moved]
        ELSE LET elapsed  == current_time - state.dwell_start_time
                 progress == Min(elapsed, dwell_time)
                 dwell_triggered == progress >= dwell_time
                 follow == [state EXCEPT !.dwell_position = Some(here)]
             IN  [out |-> [dwell_progress  |-> progress,
                           dwell_triggered |-> dwell_triggered],
                  st  |-> IF dwell_triggered
                          THEN [follow EXCEPT !.dwell_start_time = current_time]
                          ELSE follow]

\* detect_dwell that does not restart the dwell on a trigger
detect_dwell_level_held(state, tip_pos, current_time) ==
    LET here  == XY(tip_pos)
        moved == [state EXCEPT !.dwell_position = Some(here),
                               !.dwell_start_time = current_time]
        zero  == [dwell_progress |-> 0, dwell_triggered |-> FALSE]
    IN  IF state.dwell_position = NoValue
        THEN [out |-> zero, st |-> moved]
        ELSE IF _calculate_distance(state.dwell_position[1], here)
                  > Sq(dwell_radius)
        THEN [out |-> zero, st |-> moved]
        ELSE LET elapsed  == current_time - state.dwell_start_time
                 progress == Min(elapsed, dwell_time)
             IN  [out |-> [dwell_progress  |-> progress,
                           dwell_triggered |-> progress >= dwell_time],
                  st  |-> state]

detect_dwell(state, tip_pos, current_time) ==
    LET here  == XY(tip_pos)
        moved == [state EXCEPT !.dwell_position = Some(here),
                               !.dwell_start_time = current_time]
        zero  == [dwell_progress |-> 0, dwell_triggered |-> FALSE]
    IN  IF state.dwell_position = NoValue
        THEN [out |-> zero, st |-> moved]
        ELSE
        LET distance == _calculate_distance(state.dwell_position[1], here)
        IN  IF distance > Sq(dwell_radius)
            THEN [out |-> zero, st |-> moved]
            ELSE
            LET elapsed  == current_time - state.dwell_start_time
                \* min(elapsed / dwell_time, 1.0), times dwell_time
                progress == Min(elapsed, dwell_time)
                dwell_triggered == progress >= dwell_time
            IN  [out |-> [dwell_progress  |-> progress,
                          dwell_triggered |-> dwell_triggered],
                 st  |-> IF dwell_triggered
                         THEN [state EXCEPT !.dwell_start_time = current_time]
                         ELSE state]

\* ------------------------------------------------------------------------
\* GestureRecognizer.recognize
\* ------------------------------------------------------------------------
\* time.time() is read once in every detector call that reaches it: the
\* thumb's detect_pinch returns before the read, so one hand makes ten
\* reads, in this order.
ReadsPerHand == 10
FingerIdx(f) == CHOOSE i \in 1..5 : FingerNames[i] = f
DwellRead(f) == IF f = "thumb" THEN 1 ELSE 2 * (FingerIdx(f) - 1)
PinchRead(f) == 2 * (FingerIdx(f) - 1) + 1
FistRead == 10

\* The body of the loop over hands_data for one hand: state is
\* self.states[label], T[n] the value of the n-th clock read of the cycle,
\* base the number of reads made before this hand.
RecognizeHand(state, hand, T, base) ==
    LET landmarks == hand.landmarks
        dwell == [f \in Fingers |->
                    detect_dwell(state.fingers[f], landmarks[finger_map[f]],
                                 T[base + DwellRead(f)])]
        pinch == [f \in Fingers |->
                    detect_pinch(dwell[f].st, landmarks, f, finger_map[f],
                                 IF f = "thumb" THEN NoTime
                                 ELSE T[base + PinchRead(f)])]
        withFingers == [state EXCEPT !.fingers = [f \in Fingers |-> pinch[f].st]]
        fist == detect_fist(withFingers, landmarks, T[base + FistRead])
    IN  [rec |-> [label   |-> hand.label,
                  fingers |-> [f \in Fingers |->
                                 [pointer |-> XY(landmarks[finger_map[f]]),
                                  dwell   |-> dwell[f].out,
                                  pinch   |-> pinch[f].out]],
                  fist    |-> fist.out],
         st  |-> fist.st]

RECURSIVE RecognizeLoop(_, _, _, _, _)
RecognizeLoop(sts, hands_data, i, T, results) ==
    IF i > Len(hands_data)
    THEN [states |-> sts, results |-> results, error |-> FALSE]
    ELSE LET hand == hands_data[i]
         IN  IF hand.label \notin DOMAIN sts
             \* self.states[label] raises KeyError in detect_dwell
             THEN [states |-> sts, results |-> <<>>, error |-> TRUE]
             ELSE LET r == RecognizeHand(sts[hand.label], hand, T,
                                         (i - 1) * ReadsPerHand)
                  IN  RecognizeLoop([sts EXCEPT ![hand.label] = r.st],
                                    hands_data, i + 1, T,
                                    Append(results, r.rec))

recognize(sts, hands_data, T) ==
    LET detected_labels == {hands_data[i].label : i \in DOMAIN hands_data}
        afterReset == [label \in DOMAIN sts |->
                         IF label \notin detected_labels
                         THEN _init_hand_state
                         ELSE sts[label]]
    IN  RecognizeLoop(afterReset, hands_data, 1, T, <<>>)

\* GestureRecognizer.reset
reset_recognizer(sts) == [label \in DOMAIN sts |-> _init_hand_state]

\* ------------------------------------------------------------------------
\* MultiPointEMAFilter
\* ------------------------------------------------------------------------
\* ema_alpha = 0.3 as AlphaNum / AlphaDen
AlphaNum == 3
AlphaDen == 10

\* EmaStep with the weights of the new value and of the memory exchanged
EmaStepSwapped(x, ema) ==
    ((AlphaDen - AlphaNum) * x + AlphaNum * ema) \div AlphaDen

\* alpha * x + (1 - alpha) * ema, rounded down to the fixed-point grid
EmaStep(x, ema) == (AlphaNum * x + (AlphaDen - AlphaNum) * ema) \div AlphaDen

\* An array of points is a function on 0..n-1; NPoints is its shape[0].
NPoints(a) == Cardinality(DOMAIN a)

\* numpy broadcasting of the first axis of two arrays of points: the shapes
\* fit when they are equal or one of them is 1.
Broadcastable(m, n) == m = n \/ m = 1 \/ n = 1
BroadcastAt(a, i) == IF NPoints(a) = 1 THEN a[0] ELSE a[i]

\* MultiPointEMAFilter.update raises: the only statement that can is
\* alpha * landmarks + (1 - alpha) * self.ema_values, a ValueError of numpy
\* when the two shapes cannot be broadcast.  Nothing has been assigned then.
update_raises(ema_values, landmarks) ==
    /\ ema_values # NoValue
    /\ ~Broadcastable(NPoints(landmarks), NPoints(ema_values[1]))

\* MultiPointEMAFilter.update: the new self.ema_values, which is also the
\* array the call returns (the same object, not a copy).
update(ema_values, landmarks) ==
    IF ema_values = NoValue
    THEN landmarks
    ELSE LET n == IF NPoints(landmarks) = 1 THEN NPoints(ema_values[1])
                  ELSE NPoints(landmarks)
         IN  [i \in 0..(n - 1) |->
                LET x   == BroadcastAt(landmarks, i)
                    ema == BroadcastAt(ema_values[1], i)
                IN  [c \in DOMAIN x |-> EmaStep(x[c], ema[c])]]

\* MultiPointEMAFilter.reset
reset == NoValue

\* EMAFilter.update on the state (ema_x, ema_y): the new state, which is
\* the pair the call returns.  EMAFilter.reset leaves None, None.
EMAFilter_update(ema, x, y) ==
    IF ema = NoValue THEN <<x, y>>
    ELSE <<EmaStep(x, ema[1][1]), EmaStep(y, ema[1][2])>>
EMAFilter_reset == NoValue

\* ------------------------------------------------------------------------
\* HandTracker
\* ------------------------------------------------------------------------
FilterIdx == 0..(max_num_hands - 1)

\* landmarks[:, :2] += offset
AddOffset(landmarks, offset) ==
    [i \in DOMAIN landmarks |->
        <<landmarks[i][1] + offset[1], landmarks[i][2] + offset[2],
          landmarks[i][3]>>]

get_all_fingertips(landmarks) ==
    [f \in Fingers |-> XY(landmarks[finger_map[f]])]

\* HandTracker.process_frame.  detection is what the landmarker returns for
\* the frame: a sequence of [label, landmarks].  The array returned by
\* update is the filter's own ema_values, so the in-place addition of the
\* calibration offset is made to the filter's state as well.
RECURSIVE ProcessLoop(_, _, _, _, _, _)
ProcessLoop(flt, offset, calibrated, detection, i, hands) ==
    IF i >= Len(detection) \/ i >= max_num_hands
    THEN [filters |-> flt, hands_data |-> hands]
    ELSE LET raw       == detection[i + 1].landmarks
             smoothed  == update(flt[i], raw)
             landmarks == IF calibrated THEN AddOffset(smoothed, offset)
                          ELSE smoothed
         IN  ProcessLoop([flt EXCEPT ![i] = Some(landmarks)], offset,
                         calibrated, detection, i + 1,
                         Append(hands,
                                [landmarks |-> landmarks,
                                 label     |-> detection[i + 1].label,
                                 fingers   |-> get_all_fingertips(landmarks)]))

process_frame(flt, offset, calibrated, detection) ==
    LET r == ProcessLoop(flt, offset, calibrated, detection, 0, <<>>)
    IN  [filters    |-> [i \in FilterIdx |->
                           IF i >= Len(r.hands_data) THEN reset
                           ELSE r.filters[i]],
         hands_data |-> r.hands_data]

\* HandTracker.calibrate: the new calibration_offset
calibrate(landmarks, target_position, finger_idx) ==
    LET current_position == XY(landmarks[finger_idx])
    IN  <<target_position[1] - current_position[1],
          target_position[2] - current_position[2]>>

\* ------------------------------------------------------------------------
\* Landmark sets the landmarker is taken to report
\* ------------------------------------------------------------------------
\* An open hand: wrist at the bottom, the four fingers stretched upwards,
\* the thumb to the left.  Point 4k+j is joint j of finger k.
FingerX == <<350, 450, 500, 550, 600>>
OpenHand ==
    [i \in 0..(num_points - 1) |->
        IF i = WRIST THEN <<500, 800, 0>>
        ELSE LET k == (i - 1) \div 4
                 j == ((i - 1) % 4) + 1
             IN  IF k = 0 THEN <<FingerX[1], 750 - 50 * (j - 1), 0>>
                 ELSE <<FingerX[k + 1], 600 - 100 * (j - 1), 0>>]

Shift(landmarks, dx, dy) ==
    [i \in DOMAIN landmarks |->
        <<landmarks[i][1] + dx, landmarks[i][2] + dy, landmarks[i][3]>>]

\* the index tip brought to the thumb tip
PinchHand == [OpenHand EXCEPT ![INDEX_TIP] = <<360, 610, 0>>]

\* the four finger tips folded towards the wrist
FistHand ==
    [OpenHand EXCEPT ![INDEX_TIP]  = <<450, 650, 0>>,
                     ![MIDDLE_TIP] = <<500, 650, 0>>,
                     ![RING_TIP]   = <<550, 650, 0>>,
                     ![PINKY_TIP]  = <<600, 650, 0>>]

\* the folded hand with the thumb tip laid on the index tip
GripHand == [FistHand EXCEPT ![THUMB_TIP] = <<440, 640, 0>>]

PinchPoses == {OpenHand, PinchHand}
FistPoses  == {OpenHand, FistHand}
\* the open hand at its place, 20 and 40 to the right of it: the second is
\* within dwell_radius of the first and of the third, the third is not
\* within dwell_radius of the first
DwellPoses == {OpenHand, Shift(OpenHand, 20, 0), Shift(OpenHand, 40, 0)}

\* every result of one detection of at most n hands, each with a
\* handedness label and a landmark set
Detections(labels, poses, n) ==
    LET Hand == [label : labels, landmarks : poses]
    IN  {<<>>} \cup (IF n >= 1 THEN {<<h>> : h \in Hand} ELSE {})
               \cup (IF n >= 2 THEN {<<h1, h2>> : h1 \in Hand, h2 \in Hand}
                     ELSE {})

\* ------------------------------------------------------------------------
\* The clock.  A cycle that starts at clock value t0 makes its reads in
\* order; the clock may tick once while the cycle runs, before read k
\* (k = 0: it does not tick).
\* ------------------------------------------------------------------------
NReads == ReadsPerHand * max_num_hands
Clock(t0, k) == [n \in 1..NReads |-> IF k # 0 /\ n >= k THEN t0 + 1 ELSE t0]
ClockAfter(t0, k, nhands) ==
    IF nhands = 0 THEN t0 ELSE Clock(t0, k)[ReadsPerHand * nhands]

\* ------------------------------------------------------------------------
\* Observers.  They follow, from the inputs and the outputs of the cycles
\* alone, what the properties below speak about: the runs of a held
\* gesture and the place where a finger rests.  They take no part in the
\* program.
\* ------------------------------------------------------------------------
\* A run of consecutive cycles with a condition on: start is the timestamp
\* of the run's first cycle, due says that a cycle of the run has already
\* been at least the hold time after start, rel that an earlier run of
\* this hand was ended by a cycle with the condition off, held that such
\* an earlier run had got as far as due.
HoldInit == [start |-> NoTime, due |-> FALSE, rel |-> FALSE, held |-> FALSE]
HoldSeen(m, on, t) ==
    [on    |-> on,
     t     |-> t,
     start |-> IF ~on THEN NoTime ELSE IF m.start = NoTime THEN t ELSE m.start,
     due   |-> on /\ m.due,
     rel   |-> m.rel,
     held  |-> m.held]
HoldNext(m, on, t, hold) ==
    LET s == HoldSeen(m, on, t)
    IN  IF on
        THEN [start |-> s.start,
              due   |-> m.due \/ t - s.start >= hold,
              rel   |-> m.rel,
              held  |-> m.held]
        ELSE [start |-> NoTime, due |-> FALSE,
              rel   |-> m.rel \/ m.start # NoTime,
              held  |-> m.held \/ m.due]

\* The resting place of a finger tip: anchor is where the tip was when it
\* was first seen or last left the radius, since the timestamp of that
\* cycle or of the last cycle that reported a trigger, prog the progress
\* last reported since then, ntrig the triggers reported at this anchor
\* and streak the triggers reported in the last cycles without a cycle in
\* between (both counted up to 2), last the timestamp of the last cycle.
RestInit == [anchor |-> NoValue, since |-> NoTime, prog |-> 0, ntrig |-> 0,
             streak |-> 0, last |-> NoTime]
Within(a, b, r) == Sq(a[1] - b[1]) + Sq(a[2] - b[2]) <= r * r
RestSeen(m, tip, t) ==
    [still  |-> m.anchor # NoValue /\ Within(m.anchor[1], tip, dwell_radius),
     tip    |-> tip,
     t      |-> t,
     anchor |-> m.anchor,
     since  |-> m.since,
     prog   |-> m.prog,
     ntrig  |-> m.ntrig,
     streak |-> m.streak,
     last   |-> m.last]
RestNext(m, tip, t, out) ==
    LET streak == IF out.dwell_triggered THEN Min(m.streak + 1, 2) ELSE 0
    IN  IF ~RestSeen(m, tip, t).still
        THEN [anchor |-> Some(tip), since |-> t, prog |-> 0, ntrig |-> 0,
              streak |-> streak, last |-> t]
        ELSE IF out.dwell_triggered
             THEN [m EXCEPT !.since = t, !.prog = 0,
                            !.ntrig = Min(m.ntrig + 1, 2),
                            !.streak = streak, !.last = t]
             ELSE [m EXCEPT !.prog = out.dwell_progress, !.streak = 0,
                            !.last = t]

\* thumb tip and finger tip closer than 0.05 in the image plane
TipsClose(landmarks, f) ==
    LET a == landmarks[THUMB_TIP]
        b == landmarks[finger_map[f]]
    IN  (a[1] - b[1]) * (a[1] - b[1]) + (a[2] - b[2]) * (a[2] - b[2]) < 2500

WatchInit ==
    [pinch |-> [f \in NonThumb |-> HoldInit],
     fist  |-> HoldInit,
     rest  |-> [f \in Fingers |-> RestInit]]

\* what the observers see of one hand of a cycle
WatchSeen(m, hand, rec, T, base) ==
    [label |-> hand.label,
     pinch |-> [f \in NonThumb |->
                  HoldSeen(m.pinch[f], TipsClose(hand.landmarks, f),
                           T[base + PinchRead(f)])],
     fist  |-> HoldSeen(m.fist, rec.fist.is_fist, T[base + FistRead]),
     rest  |-> [f \in Fingers |->
                  RestSeen(m.rest[f], XY(hand.landmarks[finger_map[f]]),
                           T[base + DwellRead(f)])]]
WatchNext(m, hand, rec, T, base) ==
    [pinch |-> [f \in NonThumb |->
                  HoldNext(m.pinch[f], TipsClose(hand.landmarks, f),
                           T[base + PinchRead(f)], pinch_hold_time)],
     fist  |-> HoldNext(m.fist, rec.fist.is_fist, T[base + FistRead],
                        fist_hold_time),
     rest  |-> [f \in Fingers |->
                  RestNext(m.rest[f], XY(hand.landmarks[finger_map[f]]),
                           T[base + DwellRead(f)], rec.fingers[f].dwell)]]

RECURSIVE WatchLoop(_, _, _, _, _, _)
WatchLoop(w, hands, recs, T, i, seen) ==
    IF i > Len(recs)
    THEN [watch |-> w, seen |-> seen]
    ELSE LET label == hands[i].label
             base  == (i - 1) * ReadsPerHand
         IN  WatchLoop([w EXCEPT ![label] =
                            WatchNext(w[label], hands[i], recs[i], T, base)],
                       hands, recs, T, i + 1,
                       Append(seen,
                              WatchSeen(w[label], hands[i], recs[i], T, base)))

\* a hand that is not in the cycle ends all its runs
WatchCycle(w, hands, recs, T) ==
    LET present == {hands[i].label : i \in DOMAIN hands}
    IN  WatchLoop([label \in DOMAIN w |->
                     IF label \in present THEN w[label] ELSE WatchInit],
                  hands, recs, T, 1, <<>>)

\* ------------------------------------------------------------------------
\* Reference smoothers.  They follow the calls of process_frame beside the
\* tracker's filters:
\*   absorbed[i]  the labels whose observations have gone into the state
\*                filter i holds (empty when the filter is uninitialized);
\*   own[label]   the output of a smoother that is given the observations
\*                of this label only and is reset when the label is absent;
\*   plain[i]     the state filter i would hold, had nothing but update and
\*                reset ever written to it.
\* ------------------------------------------------------------------------
TrackInit ==
    [absorbed |-> [i \in FilterIdx |-> {}],
     own      |-> [label \in Labels |-> NoValue],
     plain    |-> [i \in FilterIdx |-> NoValue]]

TrackFrame(tr, offset, calibrated, detection) ==
    LET n == Min(Len(detection), max_num_hands)
        Seen(label) == {i \in 1..n : detection[i].label = label}
    IN  [absorbed |-> [i \in FilterIdx |->
                         IF i < n
                         THEN tr.absorbed[i] \cup {detection[i + 1].label}
                         ELSE {}],
         own      |-> [label \in Labels |->
                         IF Seen(label) = {} THEN NoValue
                         ELSE LET i == CHOOSE j \in Seen(label) : TRUE
                                  smoothed == update(tr.own[label],
                                                     detection[i].landmarks)
                              IN  Some(IF calibrated
                                       THEN AddOffset(smoothed, offset)
                                       ELSE smoothed)],
         plain    |-> [i \in FilterIdx |->
                         IF i < n
                         THEN Some(update(tr.plain[i],
                                          detection[i + 1].landmarks))
                         ELSE NoValue]]

\* ------------------------------------------------------------------------
\* State
\* ------------------------------------------------------------------------
VARIABLES
    filters,             \* HandTracker.filters[i].ema_values
    calibration_offset,  \* HandTracker.calibration_offset
    is_calibrated,       \* HandTracker.is_calibrated
    states,              \* GestureRecognizer.states
    now,                 \* the wall clock, time.time()
    hands_data,          \* the hands_data of the last cycle
    results,             \* what recognize returned in the last cycle
    call,                \* the last call made on an object alone, see NoCall
    watch,               \* the observers, per label
    track,               \* the reference smoothers, see TrackInit
    frames,              \* frames the tracking loop has processed
    messages,            \* client messages the tracking loop has handled
    sessions,            \* the client sessions, see SessionsInit
    calls                \* the tracker and recognizer calls of the last
                         \* iteration of the tracking loop, in order

vars == <<filters, calibration_offset, is_calibrated, states, fist_threshold,
          now, hands_data, results, call, watch, track, frames, messages,
          sessions, calls>>

\* A client session is a run of websocket_hand_tracking.  Beside the
\* program, each session keeps a tracker and a recognizer of its own, which
\* go through the iterations of this session only; last is the session
\* whose iteration was made last.
Sessions == {"a", "b"}
SessionsInit ==
    [last |-> "none",
     own  |-> [s \in Sessions |->
                 [filters            |-> [i \in FilterIdx |-> NoValue],
                  calibration_offset |-> <<0, 0>>,
                  is_calibrated      |-> FALSE,
                  states             |-> [label \in Labels |-> _init_hand_state],
                  results            |-> <<>>]]]

\* call records an operation made directly on a smoother or on the
\* recognizer: its name, its argument, whether it raised an exception, and
\* the number of such calls so far.
NoCall == [op |-> "none", arg |-> <<>>, raised |-> FALSE, count |-> 0]

Init ==
    /\ filters = [i \in FilterIdx |-> NoValue]
    /\ calibration_offset = <<0, 0>>
    /\ is_calibrated = FALSE
    /\ states = [label \in Labels |-> _init_hand_state]
    /\ now = 0
    /\ hands_data = <<>>
    /\ results = <<>>
    /\ watch = [label \in Labels |-> WatchInit]
    /\ track = TrackInit
    /\ frames = 0
    /\ messages = 0
    /\ sessions = SessionsInit
    /\ calls = <<>>
    /\ fist_threshold = 80
    /\ call = NoCall

\* ------------------------------------------------------------------------
\* The recognizer driven directly: one call of recognize per cycle, on the
\* hands_data the caller passes.  The clock has advanced by dt since the
\* last cycle and does not tick while the cycle runs.
\* ------------------------------------------------------------------------
\* a cycle during which the clock ticks before read k (k = 0: no tick)
RecognizeAt(hd, dt, k) ==
    LET t0 == now + dt
        T  == Clock(t0, k)
        r  == recognize(states, hd, T)
        w  == WatchCycle(watch, hd, r.results, T)
    IN  /\ states' = r.states
        /\ results' = r.results
        /\ hands_data' = hd
        /\ now' = ClockAfter(t0, k, Len(hd))
        /\ watch' = w.watch

Recognize(hd, dt) == RecognizeAt(hd, dt, 0)

RecognizeCycle(hd, dt) ==
    /\ Recognize(hd, dt)
    /\ UNCHANGED <<filters, calibration_offset, is_calibrated, track,
                   frames, messages, fist_threshold, call, sessions,
                   calls>>

HandsData(poses) ==
    LET d == Detections(Labels, poses, 1)
    IN  {[i \in DOMAIN h |->
            [landmarks |-> h[i].landmarks,
             label     |-> h[i].label,
             fingers   |-> get_all_fingertips(h[i].landmarks)]] : h \in d}

PinchCycle ==
    \E hd \in HandsData(PinchPoses), dt \in 0..MaxStepPinch :
        now + dt <= MaxTimePinch /\ RecognizeCycle(hd, dt)

FistCycle ==
    \E hd \in HandsData(FistPoses), dt \in 0..MaxStepFist :
        now + dt <= MaxTimeFist /\ RecognizeCycle(hd, dt)

DwellCycle ==
    \E hd \in HandsData(DwellPoses), dt \in 0..MaxStepDwell :
        now + dt <= MaxTimeDwell /\ RecognizeCycle(hd, dt)

SpecPinch == Init /\ [][PinchCycle]_vars
SpecFist  == Init /\ [][FistCycle]_vars
SpecDwell == Init /\ [][DwellCycle]_vars

\* ------------------------------------------------------------------------
\* Properties of the hold detectors
\* ------------------------------------------------------------------------
\* what the observers see of the cycle a step makes
SeenInStep == WatchCycle(watch, hands_data', results', Clock(now', 0)).seen

\* hand i is the last of the cycle with its label: the state of that label
\* after the cycle is the state its detector calls left
LastOfLabel(hd, i) == \A j \in DOMAIN hd : j > i => hd[j].label # hd[i].label

\* C1: in a run of consecutive cycles with thumb tip and finger tip closer
\* than pinch_threshold, every cycle reports is_pinching, and
\* pinch_triggered is reported on exactly the first cycle whose timestamp
\* is at least pinch_hold_time after that of the run's first cycle.
PinchFiresOncePerRun ==
    [][\A i \in DOMAIN results' : \A f \in NonThumb :
          LET o == SeenInStep[i].pinch[f]
              p == results'[i].fingers[f].pinch
          IN  o.on =>
                /\ p.is_pinching
                /\ p.pinch_triggered <=>
                     (o.t - o.start >= pinch_hold_time /\ ~o.due)]_vars

\* a pinch is still held in a cycle after the one that reported the trigger
PinchHeldAfterTrigger ==
    \E i \in DOMAIN results : \E f \in NonThumb :
        /\ results[i].fingers[f].pinch.is_pinching
        /\ ~results[i].fingers[f].pinch.pinch_triggered
        /\ watch[results[i].label].pinch[f].due

\* C2: a cycle with the tips not closer than pinch_threshold leaves the
\* finger's pinch_start_time unset and was_pinching false, and in a run
\* that follows such a cycle pinch_triggered is not reported before a cycle
\* whose timestamp is at least pinch_hold_time after the run's first.
PinchReleaseRestartsHold ==
    [][\A i \in DOMAIN results' : \A f \in NonThumb :
          LET o  == SeenInStep[i].pinch[f]
              p  == results'[i].fingers[f].pinch
              st == states'[results'[i].label].fingers[f]
          IN  /\ ~o.on =>
                   /\ ~p.pinch_triggered
                   /\ LastOfLabel(hands_data', i) =>
                        st.pinch_start_time = NoTime /\ ~st.was_pinching
              /\ (o.on /\ o.rel /\ o.t - o.start < pinch_hold_time) =>
                   ~p.pinch_triggered]_vars

\* a trigger in a run that follows the release of a run that had triggered
PinchTriggersAgainAfterRelease ==
    \E i \in DOMAIN results : \E f \in NonThumb :
        /\ results[i].fingers[f].pinch.pinch_triggered
        /\ watch[results[i].label].pinch[f].held

\* C3: the fist detector has the pinch detector's policy per hand: in a run
\* of consecutive cycles reporting is_fist, fist_triggered is reported on
\* exactly the first cycle whose timestamp is at least fist_hold_time after
\* that of the run's first cycle, and a cycle that does not report is_fist
\* leaves fist_start_time unset and was_fist false.
FistHoldPolicy ==
    [][\A i \in DOMAIN results' :
          LET o  == SeenInStep[i].fist
              p  == results'[i].fist
              st == states'[results'[i].label]
          IN  /\ p.is_fist =>
                   (p.fist_triggered <=>
                      (o.t - o.start >= fist_hold_time /\ ~o.due))
              /\ ~p.is_fist =>
                   /\ ~p.fist_triggered
                   /\ LastOfLabel(hands_data', i) =>
                        st.fist_start_time = NoTime /\ ~st.was_fist]_vars

\* a fist trigger in a run that follows the release of a run that had
\* triggered
FistTriggersAgainAfterRelease ==
    \E i \in DOMAIN results :
        /\ results[i].fist.fist_triggered
        /\ watch[results[i].label].fist.held

\* ------------------------------------------------------------------------
\* The fold test on its own: recognize called once on a landmark set in
\* which each of the four fingers is placed on the ray from the wrist
\* through its mcp joint, which lies 200 from the wrist: at half the mcp
\* distance (folded), at the mcp distance (level), at 1.2 times it (over),
\* at twice it (extended), or at half of it in the image plane but 250 out
\* of the plane (raised).  The thumb is stretched or tucked onto the wrist.
\* ------------------------------------------------------------------------
FoldKinds == {"folded", "level", "over", "extended", "raised"}
ThumbPlaces == {"stretched", "tucked"}
mcp_map == [index |-> INDEX_MCP, middle |-> MIDDLE_MCP, ring |-> RING_MCP,
            pinky |-> PINKY_MCP]
ProbeWrist == <<500, 800, 0>>
ProbeMcpRay == [index |-> <<-120, -160>>, middle |-> <<0, -200>>,
                ring  |-> <<120, -160>>,  pinky  |-> <<160, -120>>]
ProbeTip(f, kind) ==
    LET v   == ProbeMcpRay[f]
        num == CASE kind = "level" -> 10
                 [] kind = "over" -> 12
                 [] kind = "extended" -> 20
                 [] OTHER -> 5
    IN  <<ProbeWrist[1] + (v[1] * num) \div 10,
          ProbeWrist[2] + (v[2] * num) \div 10,
          IF kind = "raised" THEN 250 ELSE 0>>
ProbeHand(kinds, thumb) ==
    [i \in 0..(num_points - 1) |->
        IF i = WRIST THEN ProbeWrist
        ELSE IF \E f \in NonThumb : finger_map[f] = i
        THEN ProbeTip(CHOOSE f \in NonThumb : finger_map[f] = i,
                      kinds[CHOOSE f \in NonThumb : finger_map[f] = i])
        ELSE IF \E f \in NonThumb : mcp_map[f] = i
        THEN LET v == ProbeMcpRay[CHOOSE f \in NonThumb : mcp_map[f] = i]
             IN  <<ProbeWrist[1] + v[1], ProbeWrist[2] + v[2], 0>>
        ELSE IF i <= THUMB_TIP /\ thumb = "tucked" THEN ProbeWrist
        ELSE OpenHand[i]]
FoldProbes ==
    {ProbeHand(kinds, thumb) : kinds \in [NonThumb -> FoldKinds],
                               thumb \in ThumbPlaces}

InitFold ==
    /\ filters = [i \in FilterIdx |-> NoValue]
    /\ calibration_offset = <<0, 0>>
    /\ is_calibrated = FALSE
    /\ states = [label \in Labels |-> _init_hand_state]
    /\ now = 0
    /\ \E landmarks \in FoldProbes, label \in Labels :
          hands_data = <<[landmarks |-> landmarks,
                          label     |-> label,
                          fingers   |-> get_all_fingertips(landmarks)]>>
    /\ results = <<>>
    /\ watch = [label \in Labels |-> WatchInit]
    /\ track = TrackInit
    /\ frames = 0
    /\ messages = 0
    /\ sessions = SessionsInit
    /\ calls = <<>>
    /\ fist_threshold = 80
    /\ call = NoCall

FoldCall ==
    /\ results = <<>>
    /\ RecognizeCycle(hands_data, 0)

SpecFold == InitFold /\ [][FoldCall]_vars

\* the fold rule of the fist detector, in the three coordinates of the
\* landmarks: distance(tip, wrist) < 1.1 * distance(mcp, wrist)
Dist3Sq(p, q) ==
    (p[1] - q[1]) * (p[1] - q[1]) + (p[2] - q[2]) * (p[2] - q[2])
      + (p[3] - q[3]) * (p[3] - q[3])
FoldedByRule(landmarks, f) ==
    100 * Dist3Sq(landmarks[finger_map[f]], landmarks[0])
      < 121 * Dist3Sq(landmarks[mcp_map[f]], landmarks[0])
\* the landmark set with the thumb's four points taken out of the picture
WithoutThumb(landmarks) ==
    [i \in DOMAIN landmarks |->
        IF 1 <= i /\ i <= 4 THEN <<0, 0, 0>> ELSE landmarks[i]]

\* C4: is_fist is reported exactly when each of index, middle, ring and
\* pinky passes the fold test distance(tip, wrist) < 1.1 * distance(mcp,
\* wrist), whatever the thumb's landmarks are.
FistIffFourFingersFolded ==
    \A i \in DOMAIN results :
        results[i].fist.is_fist <=>
            \A f \in NonThumb :
                FoldedByRule(WithoutThumb(hands_data[i].landmarks), f)

\* three fingers folded and one not, and no fist reported
OneFingerKeepsFistOff ==
    \E i \in DOMAIN results :
        /\ ~results[i].fist.is_fist
        /\ Cardinality({f \in NonThumb :
                           FoldedByRule(hands_data[i].landmarks, f)}) = 3

\* ------------------------------------------------------------------------
\* Properties of the dwell detector
\* ------------------------------------------------------------------------
\* C5: while a finger tip stays within dwell_radius of its anchor, the
\* reported progress lies between 0 and 1 and does not fall between two
\* triggers; dwell_triggered is reported exactly on a cycle whose timestamp
\* is at least dwell_time after the cycle that set the anchor or reported
\* the previous trigger; and that cycle sets dwell_start_time to its
\* timestamp and leaves the anchor where it was.
DwellTriggersEveryDwellTime ==
    [][LET seen == SeenInStep IN
       \A i \in DOMAIN results' : \A f \in Fingers :
          LET o  == seen[i].rest[f]
              d  == results'[i].fingers[f].dwell
              st == states'[results'[i].label].fingers[f]
          IN  o.still =>
                /\ 0 <= d.dwell_progress /\ d.dwell_progress <= dwell_time
                /\ d.dwell_progress >= o.prog
                /\ d.dwell_triggered <=> o.t - o.since >= dwell_time
                /\ (d.dwell_triggered /\ LastOfLabel(hands_data', i)) =>
                     /\ st.dwell_start_time = o.t
                     /\ st.dwell_position = o.anchor]_vars

\* a second trigger at the same anchor
DwellTriggeredTwiceAtAnchor ==
    \E i \in DOMAIN results : \E f \in Fingers :
        /\ results[i].fingers[f].dwell.dwell_triggered
        /\ watch[results[i].label].rest[f].ntrig = 2

\* C6: a cycle in which the finger has no anchor, or its tip is farther
\* than dwell_radius from the anchor, sets the anchor to the tip and
\* dwell_start_time to its timestamp and reports progress 0 and no trigger;
\* a cycle in which the tip is within dwell_radius leaves the anchor.
DwellAnchorMovesOnlyOutsideRadius ==
    [][LET seen == SeenInStep IN
       \A i \in DOMAIN results' : \A f \in Fingers :
          LET o  == seen[i].rest[f]
              d  == results'[i].fingers[f].dwell
              st == states'[results'[i].label].fingers[f]
          IN  /\ ~o.still =>
                   /\ d.dwell_progress = 0
                   /\ ~d.dwell_triggered
                   /\ LastOfLabel(hands_data', i) =>
                        /\ st.dwell_position = Some(o.tip)
                        /\ st.dwell_start_time = o.t
              /\ (o.still /\ LastOfLabel(hands_data', i)) =>
                   st.dwell_position = o.anchor]_vars

\* a tip that rests inside the radius at another place than its anchor
DwellTipDriftedInsideRadius ==
    \E i \in DOMAIN results : \E f \in Fingers :
        LET w == watch[results[i].label].rest[f]
        IN  /\ w.anchor # NoValue
            /\ w.anchor # Some(results[i].fingers[f].pointer)
            /\ w.since < now

\* C7 as claimed: dwell_triggered is never reported on two consecutive
\* cycles of a finger.
DwellNeverTriggersOnConsecutiveCycles ==
    \A label \in Labels : \A f \in Fingers : watch[label].rest[f].streak < 2

\* C7 as amended: dwell_triggered is reported on two consecutive cycles of
\* a finger only if the timestamp of the second is at least dwell_time
\* after that of the first.
DwellConsecutiveTriggersDwellTimeApart ==
    [][LET seen == SeenInStep IN
       \A i \in DOMAIN results' : \A f \in Fingers :
          LET o == seen[i].rest[f]
              d == results'[i].fingers[f].dwell
          IN  (d.dwell_triggered /\ o.streak >= 1) =>
                 o.t - o.last >= dwell_time]_vars

\* two consecutive cycles of a finger have both reported a trigger
DwellTriggeredOnConsecutiveCycles ==
    \E label \in Labels : \E f \in Fingers : watch[label].rest[f].streak = 2

\* ------------------------------------------------------------------------
\* The tracking loop of websocket_hand_tracking.  One step is one iteration:
\* the client message, if one has arrived, then a frame from the webcam
\* through process_frame and recognize.  An iteration takes LoopStep ticks.
\* ------------------------------------------------------------------------
LoopStep == 1
RightHand == Shift(OpenHand, -200, 0)
LoopLeft == [label |-> "Left", landmarks |-> OpenHand]
LoopRight == [label |-> "Right", landmarks |-> RightHand]
\* what the landmarker reports for a frame
LoopDetections ==
    {<<>>, <<LoopLeft>>, <<LoopRight>>, <<LoopLeft, LoopRight>>,
     <<LoopRight, LoopLeft>>}
\* the target of a calibrate message; its finger is the default, 8
LoopTarget == <<500, 500>>

\* HandTracker.reset_calibration
reset_calibration == [calibration_offset |-> <<0, 0>>, is_calibrated |-> FALSE]

\* the frame part of an iteration, with the tracker as the message part
\* left it; before holds the calls the message part made
LoopFrame(flt, offset, calibrated, tr, detection, before) ==
    LET pf == process_frame(flt, offset, calibrated, detection)
    IN  /\ frames < MaxFrames
        /\ frames' = frames + 1
        /\ filters' = pf.filters
        /\ calibration_offset' = offset
        /\ is_calibrated' = calibrated
        /\ track' = TrackFrame(tr, offset, calibrated, detection)
        /\ Recognize(pf.hands_data, LoopStep)
        /\ calls' = before \o <<"process_frame", "recognize">>
        /\ UNCHANGED <<fist_threshold, call, sessions>>

\* no message within the timeout
LoopNoMessage ==
    \E detection \in LoopDetections :
        /\ LoopFrame(filters, calibration_offset, is_calibrated, track,
                     detection, <<>>)
        /\ UNCHANGED messages

\* a reset_calibration message
LoopResetCalibration ==
    \E detection \in LoopDetections :
        /\ messages < MaxMessages
        /\ messages' = messages + 1
        /\ LoopFrame(filters, reset_calibration.calibration_offset,
                     reset_calibration.is_calibrated, track, detection,
                     <<"reset_calibration">>)

\* a calibrate message: a frame of its own goes through process_frame, and
\* the first hand of it, if there is one, is calibrated to the target
LoopCalibrate ==
    \E seen \in LoopDetections, detection \in LoopDetections :
        LET pf  == process_frame(filters, calibration_offset, is_calibrated,
                                 seen)
            tr  == TrackFrame(track, calibration_offset, is_calibrated, seen)
            hit == pf.hands_data # <<>>
        IN  /\ messages < MaxMessages
            /\ messages' = messages + 1
            /\ LoopFrame(pf.filters,
                         IF hit
                         THEN calibrate(pf.hands_data[1].landmarks,
                                        LoopTarget, INDEX_TIP)
                         ELSE calibration_offset,
                         hit \/ is_calibrated, tr, detection,
                         IF hit THEN <<"process_frame", "calibrate">>
                         ELSE <<"process_frame">>)

Next == LoopNoMessage \/ LoopResetCalibration \/ LoopCalibrate

Spec == Init /\ [][Next]_vars

Absent(label) == \A i \in DOMAIN hands_data : hands_data[i].label # label

\* C8 as claimed: after a cycle in which a label has no observation, no
\* smoother holds a state that observations of this label have gone into,
\* and the pinch, fist and dwell states of the label are the initial ones.
AbsentLabelSlotIsReset ==
    \A label \in Labels :
        Absent(label) =>
            /\ \A i \in FilterIdx :
                  filters[i] # NoValue => label \notin track.absorbed[i]
            /\ states[label] = _init_hand_state

\* C9 as claimed: the smoothed landmarks of a hand are those of a smoother
\* that is given the observations of this hand's label only.
SmoothedOutputFollowsOwnHistory ==
    \A i \in DOMAIN hands_data :
        Some(hands_data[i].landmarks) = track.own[hands_data[i].label]

\* C10 as claimed: with calibration enabled, the landmarks process_frame
\* returns are the EMA of the raw observations plus the calibration offset,
\* and the smoother state is the EMA of the raw observations.
OffsetAddedOnceToEma ==
    is_calibrated =>
        \A i \in DOMAIN hands_data :
            /\ hands_data[i].landmarks =
                 AddOffset(track.plain[i - 1][1], calibration_offset)
            /\ filters[i - 1] = track.plain[i - 1]

\* C11 as claimed: once reset_calibration has disabled the calibration, the
\* landmarks process_frame returns are those of a tracker that was never
\* calibrated and has seen the same raw observations.
ResetRestoresUncalibratedMapping ==
    ~is_calibrated =>
        \A i \in DOMAIN hands_data :
            Some(hands_data[i].landmarks) = track.plain[i - 1]

\* ------------------------------------------------------------------------
\* The smoothers alone.  filters[0] is the ema_values of a
\* MultiPointEMAFilter and filters[1] the (ema_x, ema_y) of an EMAFilter,
\* both with alpha = AlphaNum / AlphaDen; every step is one call of update
\* or reset on one of them.
\* ------------------------------------------------------------------------
EmaInputs == {OpenHand, Shift(OpenHand, 40, 0), PinchHand}
EmaPairs == {<<100, 200>>, <<400, 300>>}

Called(op, arg, raised) ==
    /\ call.count < MaxCalls
    /\ call' = [op |-> op, arg |-> arg, raised |-> raised,
                count |-> call.count + 1]
    /\ UNCHANGED <<calibration_offset, is_calibrated, states, fist_threshold,
                   now, hands_data, results, watch, track, frames, messages,
                   sessions, calls>>

UpdateCall(inputs) ==
    \E landmarks \in inputs :
        LET raised == update_raises(filters[0], landmarks)
        IN  /\ filters' = IF raised THEN filters
                          ELSE [filters EXCEPT
                                  ![0] = Some(update(filters[0], landmarks))]
            /\ Called("update", landmarks, raised)

ResetCall ==
    /\ filters' = [filters EXCEPT ![0] = reset]
    /\ Called("reset", <<>>, FALSE)

EMAFilterUpdateCall ==
    \E xy \in EmaPairs :
        /\ filters' = [filters EXCEPT
                         ![1] = Some(EMAFilter_update(filters[1], xy[1],
                                                      xy[2]))]
        /\ Called("EMAFilter.update", xy, FALSE)

EMAFilterResetCall ==
    /\ filters' = [filters EXCEPT ![1] = EMAFilter_reset]
    /\ Called("EMAFilter.reset", <<>>, FALSE)

NextEma ==
    \/ UpdateCall(EmaInputs)
    \/ ResetCall
    \/ EMAFilterUpdateCall
    \/ EMAFilterResetCall

SpecEma == Init /\ [][NextEma]_vars

\* out is alpha * x + (1 - alpha) * prev on the fixed-point grid
Blend(out, x, prev) ==
    LET exact == AlphaNum * x + (AlphaDen - AlphaNum) * prev
    IN  AlphaDen * out <= exact /\ exact < AlphaDen * out + AlphaDen

\* C12: update on an uninitialized smoother returns its input and stores
\* it; update on an initialized one returns, for every point and
\* coordinate, alpha * raw + (1 - alpha) * the previous output, and stores
\* that; reset leaves the smoother uninitialized.  The value returned is the
\* state stored.
SmootherBlendsWithPreviousOutput ==
    [][/\ call'.op = "update" =>
            IF filters[0] = NoValue
            THEN filters'[0] = Some(call'.arg)
            ELSE LET out  == filters'[0][1]
                     prev == filters[0][1]
                 IN  /\ DOMAIN out = DOMAIN call'.arg
                     /\ \A i \in DOMAIN out : \A c \in 1..3 :
                           Blend(out[i][c], call'.arg[i][c], prev[i][c])
       /\ call'.op = "reset" => filters'[0] = NoValue
       /\ call'.op = "EMAFilter.update" =>
            IF filters[1] = NoValue
            THEN filters'[1] = Some(call'.arg)
            ELSE \A c \in 1..2 :
                    Blend(filters'[1][1][c], call'.arg[c], filters[1][1][c])
       /\ call'.op = "EMAFilter.reset" => filters'[1] = NoValue]_vars

\* after an update, both smoothers hold a blend that is none of their inputs
SmootherHoldsBlend ==
    /\ call.op = "update"
    /\ filters[0] # NoValue
    /\ filters[0][1] \notin EmaInputs
    /\ filters[1] # NoValue
    /\ filters[1][1] \notin EmaPairs

\* ------------------------------------------------------------------------
\* The recognizer while the clock runs: the clock may tick between any two
\* of the time.time() calls the detectors of a cycle make.
\* ------------------------------------------------------------------------
SkewPoses == {OpenHand, PinchHand}

SkewCycle ==
    \E hd \in HandsData(SkewPoses), dt \in 0..1, k \in 0..ReadsPerHand :
        /\ now + dt <= MaxTimeSkew
        /\ RecognizeAt(hd, dt, k)
        /\ UNCHANGED <<filters, calibration_offset, is_calibrated, track,
                       frames, messages, fist_threshold, call, sessions,
                       calls>>

SpecSkew == Init /\ [][SkewCycle]_vars

\* the timestamps a hand state holds, each with the field it is in
TimesOf(st) ==
    {<<"dwell", f, st.fingers[f].dwell_start_time>> : f \in Fingers}
      \cup {<<"pinch", f, st.fingers[f].pinch_start_time>> : f \in Fingers}
      \cup {<<"fist", "hand", st.fist_start_time>>}

\* the instants a step has stored
Stamped ==
    UNION {{e[3] : e \in TimesOf(states'[label]) \ TimesOf(states[label])} :
             label \in Labels} \ {NoTime}

\* C13 as claimed: all detector calls of a cycle store the same instant.
CycleStoresOneInstant == [][Cardinality(Stamped) <= 1]_vars

\* C14 as claimed: every record recognize returns has a label, a fist
\* record of is_fist and fist_triggered and, for each of the five fingers, a
\* pointer, a dwell record of dwell_progress and dwell_triggered and a pinch
\* record of is_pinching, pinch_triggered and distance.
RecordsHaveFixedShape ==
    \A i \in DOMAIN results :
        /\ DOMAIN results[i] = {"label", "fingers", "fist"}
        /\ DOMAIN results[i].fist = {"is_fist", "fist_triggered"}
        /\ DOMAIN results[i].fingers = Fingers
        /\ \A f \in Fingers :
              LET r == results[i].fingers[f]
              IN  /\ DOMAIN r = {"pointer", "dwell", "pinch"}
                  /\ DOMAIN r.dwell = {"dwell_progress", "dwell_triggered"}
                  /\ DOMAIN r.pinch =
                       {"is_pinching", "pinch_triggered", "distance"}

\* C19: for the thumb every cycle reports is_pinching and pinch_triggered
\* false, and the thumb's pinch_start_time and was_pinching keep their
\* initial values.
ThumbNeverPinches ==
    /\ \A label \in Labels :
          /\ states[label].fingers.thumb.pinch_start_time = NoTime
          /\ ~states[label].fingers.thumb.was_pinching
    /\ \A i \in DOMAIN results :
          /\ ~results[i].fingers.thumb.pinch.is_pinching
          /\ ~results[i].fingers.thumb.pinch.pinch_triggered

\* the index finger of a hand has pinched against the thumb and is latched
ThumbTouchedAndIndexLatched ==
    \E i \in DOMAIN results :
        /\ results[i].fingers.index.pinch.is_pinching
        /\ states[results[i].label].fingers.index.was_pinching
        /\ states[results[i].label].fingers.index.pinch_start_time # NoTime

\* ------------------------------------------------------------------------
\* The recognizer given hands whose label is not one of its slots.  The
\* KeyError of self.states[label] leaves recognize in the middle of its
\* work: what it has written to self.states by then stays written, and
\* nothing is returned.
\* ------------------------------------------------------------------------
AnyLabels == Labels \cup {"Unknown"}

LabelHandsData ==
    LET d == Detections(AnyLabels, {OpenHand}, max_num_hands)
    IN  {[i \in DOMAIN h |->
            [landmarks |-> h[i].landmarks,
             label     |-> h[i].label,
             fingers   |-> get_all_fingertips(h[i].landmarks)]] : h \in d}

LabelCycle ==
    \E hd \in LabelHandsData, dt \in 0..1 :
        LET T == Clock(now + dt, 0)
            r == recognize(states, hd, T)
        IN  /\ call.count < MaxCalls
            /\ call' = [op |-> "recognize", arg |-> <<>>, raised |-> r.error,
                        count |-> call.count + 1]
            /\ states' = r.states
            /\ results' = IF r.error THEN results ELSE r.results
            /\ hands_data' = hd
            /\ now' = now + dt
            /\ UNCHANGED <<filters, calibration_offset, is_calibrated,
                           fist_threshold, watch, track, frames, messages,
                           sessions, calls>>

SpecLabel == Init /\ [][LabelCycle]_vars

\* C15 as claimed: recognize given a hand whose label is neither Left nor
\* Right raises, and the states of Left and Right are after the call what
\* they were before it.
UnknownLabelFailsWithoutEffect ==
    [][(\E i \in DOMAIN hands_data' : hands_data'[i].label \notin Labels) =>
          /\ call'.raised
          /\ states' = states]_vars

\* ------------------------------------------------------------------------
\* The multi-point smoother given point sets of any size
\* ------------------------------------------------------------------------
\* the first n points of a hand, or the hand with points added at the end
FirstPoints(landmarks, n) ==
    [i \in 0..(n - 1) |-> landmarks[i % num_points]]

ShapeInputs ==
    {OpenHand, Shift(OpenHand, 40, 0),
     FirstPoints(OpenHand, 1), FirstPoints(OpenHand, num_points - 1),
     FirstPoints(PinchHand, num_points + 1)}

NextShape == UpdateCall(ShapeInputs) \/ ResetCall

SpecShape == Init /\ [][NextShape]_vars

\* C16 as claimed: update given a point set whose size is not num_points
\* raises and leaves the state of the smoother as it was.
MalformedUpdateIsRejected ==
    [][(call'.op = "update" /\ NPoints(call'.arg) # num_points) =>
          /\ call'.raised
          /\ filters' = filters]_vars

\* ------------------------------------------------------------------------
\* The recognizer under a clock that may be set back: between two cycles
\* time.time() may go down as well as up.
\* ------------------------------------------------------------------------
RegressPoses == {OpenHand, Shift(OpenHand, 40, 0), PinchHand}

RegressCycle ==
    \E hd \in HandsData(RegressPoses), dt \in -1..1 :
        /\ 0 <= now + dt
        /\ now + dt <= MaxTimeRegress
        /\ RecognizeCycle(hd, dt)

SpecRegress == Init /\ [][RegressCycle]_vars

\* C17 as claimed: the dwell_progress of every finger in every cycle lies
\* between 0 and 1.
DwellProgressInUnitInterval ==
    \A i \in DOMAIN results : \A f \in Fingers :
        /\ 0 <= results[i].fingers[f].dwell.dwell_progress
        /\ results[i].fingers[f].dwell.dwell_progress <= dwell_time

\* ------------------------------------------------------------------------
\* Recognizers constructed with different values of fist_threshold, driven
\* with the fist inputs.
\* ------------------------------------------------------------------------
FistThresholds == {80, 400}

InitThreshold ==
    /\ filters = [i \in FilterIdx |-> NoValue]
    /\ calibration_offset = <<0, 0>>
    /\ is_calibrated = FALSE
    /\ states = [label \in Labels |-> _init_hand_state]
    /\ fist_threshold \in FistThresholds
    /\ now = 0
    /\ hands_data = <<>>
    /\ results = <<>>
    /\ call = NoCall
    /\ watch = [label \in Labels |-> WatchInit]
    /\ track = TrackInit
    /\ frames = 0
    /\ messages = 0
    /\ sessions = SessionsInit
    /\ calls = <<>>

SpecThreshold == InitThreshold /\ [][FistCycle]_vars

\* C20: whatever fist_threshold is, the outputs and the states of a cycle
\* are those the observers derive from the landmarks and the timestamps
\* alone: is_fist is the fold rule on the four fingers, fist_triggered the
\* hold policy on it, dwell_triggered the dwell rule, and every timer, latch
\* and anchor of every label is the one the observers hold.  Two recognizers
\* that differ in fist_threshold only therefore agree on every cycle.
FistThresholdHasNoEffect ==
    [][LET seen == SeenInStep IN
       /\ \A i \in DOMAIN results' :
             LET o  == seen[i].fist
                 on == \A f \in NonThumb :
                          FoldedByRule(hands_data'[i].landmarks, f)
             IN  /\ results'[i].fist.is_fist <=> on
                 /\ results'[i].fist.fist_triggered <=>
                      (on /\ o.t - o.start >= fist_hold_time /\ ~o.due)
                 /\ \A f \in Fingers :
                       results'[i].fingers[f].dwell.dwell_triggered <=>
                         (seen[i].rest[f].still /\
                            o.t - seen[i].rest[f].since >= dwell_time)
       /\ \A label \in Labels :
             LET st == states'[label]
                 w  == watch'[label]
             IN  /\ st.fist_start_time = w.fist.start
                 /\ st.was_fist = w.fist.due
                 /\ \A f \in Fingers :
                       /\ st.fingers[f].dwell_position = w.rest[f].anchor
                       /\ st.fingers[f].dwell_start_time = w.rest[f].since
                 /\ \A f \in NonThumb :
                       /\ st.fingers[f].pinch_start_time = w.pinch[f].start
                       /\ st.fingers[f].was_pinching = w.pinch[f].due
                 /\ st.fingers.thumb.pinch_start_time = NoTime
                 /\ ~st.fingers.thumb.was_pinching]_vars

\* a recognizer with another fist_threshold than the default reports a
\* fist trigger
FistTriggersUnderOtherThreshold ==
    /\ fist_threshold # 80
    /\ \E i \in DOMAIN results : results[i].fist.fist_triggered

\* ------------------------------------------------------------------------
\* Two client sessions.  Each runs the tracking loop; tracker and
\* gesture_recognizer are the module globals of main.py, so every iteration
\* of either session works on filters, calibration_offset, is_calibrated
\* and states.  An iteration has no await between the receipt of its
\* message and the end of recognize, so it is one step.
\* ------------------------------------------------------------------------
SessionDetections == {<<>>, <<LoopLeft>>, <<LoopRight>>}
MessageTypes == {"none", "reset_calibration", "calibrate"}

\* one iteration on a tracker and a recognizer tr: the message, with the
\* frame a calibrate message reads, then the frame of the iteration
Iteration(tr, type, seen, detection, T) ==
    LET pf0 == process_frame(tr.filters, tr.calibration_offset,
                             tr.is_calibrated, seen)
        hit == type = "calibrate" /\ pf0.hands_data # <<>>
        flt == IF type = "calibrate" THEN pf0.filters ELSE tr.filters
        offset ==
            IF type = "reset_calibration"
            THEN reset_calibration.calibration_offset
            ELSE IF hit
                 THEN calibrate(pf0.hands_data[1].landmarks, LoopTarget,
                                INDEX_TIP)
                 ELSE tr.calibration_offset
        calibrated ==
            IF type = "reset_calibration" THEN reset_calibration.is_calibrated
            ELSE hit \/ tr.is_calibrated
        pf == process_frame(flt, offset, calibrated, detection)
        r  == recognize(tr.states, pf.hands_data, T)
    IN  [filters            |-> pf.filters,
         calibration_offset |-> offset,
         is_calibrated      |-> calibrated,
         states             |-> r.states,
         results            |-> r.results,
         hands_data         |-> pf.hands_data,
         calls              |->
             (IF type = "reset_calibration" THEN <<"reset_calibration">>
              ELSE IF hit THEN <<"process_frame", "calibrate">>
              ELSE IF type = "calibrate" THEN <<"process_frame">>
              ELSE <<>>) \o <<"process_frame", "recognize">>]

SessionIteration(s, type, seen, detection) ==
    \E g \in {Iteration([filters            |-> filters,
                         calibration_offset |-> calibration_offset,
                         is_calibrated      |-> is_calibrated,
                         states             |-> states],
                        type, seen, detection, Clock(now + LoopStep, 0))},
       own \in {Iteration(sessions.own[s], type, seen, detection,
                          Clock(now + LoopStep, 0))} :
        /\ frames < MaxSessionFrames
        /\ frames' = frames + 1
        /\ type # "none" => messages < MaxMessages
        /\ messages' = IF type = "none" THEN messages ELSE messages + 1
        /\ filters' = g.filters
        /\ calibration_offset' = g.calibration_offset
        /\ is_calibrated' = g.is_calibrated
        /\ states' = g.states
        /\ results' = g.results
        /\ hands_data' = g.hands_data
        /\ now' = now + LoopStep
        /\ calls' = g.calls
        /\ sessions' =
             [last |-> s,
              own  |-> [sessions.own EXCEPT
                          ![s] = [filters            |-> own.filters,
                                  calibration_offset |-> own.calibration_offset,
                                  is_calibrated      |-> own.is_calibrated,
                                  states             |-> own.states,
                                  results            |-> own.results]]]
        /\ UNCHANGED <<fist_threshold, call, watch, track>>

SessionNoMessage ==
    \E s \in Sessions, detection \in SessionDetections :
        SessionIteration(s, "none", <<>>, detection)

SessionResetCalibration ==
    \E s \in Sessions, detection \in SessionDetections :
        SessionIteration(s, "reset_calibration", <<>>, detection)

SessionCalibrate ==
    \E s \in Sessions, seen \in SessionDetections,
       detection \in SessionDetections :
        SessionIteration(s, "calibrate", seen, detection)

NextSessions ==
    SessionNoMessage \/ SessionResetCalibration \/ SessionCalibrate

SpecSessions == Init /\ [][NextSessions]_vars

\* C18 as claimed: the results sent to a session are those a tracker and a
\* recognizer of its own would give, which have gone through the iterations
\* of this session only.
SessionResultsAreItsOwn ==
    sessions.last \in Sessions =>
        results = sessions.own[sessions.last].results

\* ------------------------------------------------------------------------
\* Frames and recognition cycles in the tracking loop.
\* ------------------------------------------------------------------------
\* C21 as claimed: in every iteration of the tracking loop, each frame
\* that process_frame passed through the smoothers is followed by one call
\* of recognize before the next frame is smoothed, also in an iteration
\* that handles a calibrate or a reset_calibration message.
EachSmoothedFrameIsRecognized ==
    \A i \in DOMAIN calls :
        calls[i] = "process_frame" =>
            \E j \in DOMAIN calls :
                /\ j > i
                /\ calls[j] = "recognize"
                /\ \A k \in (i + 1)..(j - 1) : calls[k] # "process_frame"
                /\ \A k \in (j + 1)..Len(calls) :
                      calls[k] = "recognize" =>
                          \E m \in (j + 1)..(k - 1) : calls[m] = "process_frame"

\* ------------------------------------------------------------------------
\* The recognizer driven with hands that may pinch, make a fist and rest at
\* once.
\* ------------------------------------------------------------------------
GesturePoses == {OpenHand, PinchHand, GripHand}

GestureCycle ==
    \E hd \in HandsData(GesturePoses), dt \in 0..MaxStepGesture :
        now + dt <= MaxTimeGesture /\ RecognizeCycle(hd, dt)

SpecGesture == Init /\ [][GestureCycle]_vars

\* C22: in every state of the recognizer a set latch has a running timer
\* (was_pinching implies pinch_start_time is set, was_fist implies
\* fist_start_time is set), a finger's dwell_position and dwell_start_time
\* are both set or both unset, and in every output pinch_triggered implies
\* is_pinching and fist_triggered implies is_fist.
LatchImpliesRunningTimer ==
    /\ \A label \in Labels :
          /\ states[label].was_fist => states[label].fist_start_time # NoTime
          /\ \A f \in Fingers :
                LET state == states[label].fingers[f]
                IN  /\ state.was_pinching => state.pinch_start_time # NoTime
                    /\ (state.dwell_position = NoValue)
                         <=> (state.dwell_start_time = NoTime)
    /\ \A i \in DOMAIN results :
          /\ results[i].fist.fist_triggered => results[i].fist.is_fist
          /\ \A f \in Fingers :
                results[i].fingers[f].pinch.pinch_triggered
                    => results[i].fingers[f].pinch.is_pinching

\* a hand whose index pinch and whose fist are both latched, the fist
\* having triggered in this cycle, with the index dwell running
PinchAndFistLatched ==
    \E i \in DOMAIN results :
        LET label == results[i].label
        IN  /\ results[i].fist.fist_triggered
            /\ states[label].was_fist
            /\ states[label].fingers.index.was_pinching
            /\ states[label].fingers.index.dwell_position # NoValue

\* ------------------------------------------------------------------------
\* The recognizer driven with up to max_num_hands hands per cycle, as
\* process_frame passes them on: each hand carries the label the landmarker
\* gave it, and two hands of one frame may carry the same label.
\* ------------------------------------------------------------------------
PairHandsData ==
    LET d == Detections(Labels, PinchPoses, max_num_hands)
    IN  {[i \in DOMAIN h |->
            [landmarks |-> h[i].landmarks,
             label     |-> h[i].label,
             fingers   |-> get_all_fingertips(h[i].landmarks)]] : h \in d}

PairCycle ==
    \E hd \in PairHandsData, dt \in 0..1 :
        now + dt <= MaxTimePair /\ RecognizeCycle(hd, dt)

SpecPair == Init /\ [][PairCycle]_vars

\* C23 as claimed: a cycle returns one record per observation, in input
\* order, and the record of an observation is the one the cycle would
\* return had it carried this observation alone; the state of a label
\* after the cycle is advanced by one of its observations only.
ObservationsDoNotInfluenceEachOther ==
    [][LET T == Clock(now', 0)
           Alone(i) == recognize(states, <<hands_data'[i]>>, T)
       IN  /\ Len(results') = Len(hands_data')
           /\ \A i \in DOMAIN hands_data' :
                 /\ results'[i].label = hands_data'[i].label
                 /\ results'[i] = Alone(i).results[1]
                 /\ \E j \in DOMAIN hands_data' :
                       /\ hands_data'[j].label = hands_data'[i].label
                       /\ states'[hands_data'[i].label]
                            = Alone(j).states[hands_data'[j].label]]_vars

\* ------------------------------------------------------------------------
\* The detectors called one at a time: detect_pinch, detect_dwell and
\* detect_fist are methods of the recognizer, each called with the label
\* (and finger) whose state it is to work on, and recognize itself.
\* ------------------------------------------------------------------------
DetectPoses == {OpenHand, GripHand}
DetectFingers == {"thumb", "index"}
DetectSteps == {0, pinch_hold_time, fist_hold_time}

Detected(op, arg, dt) ==
    /\ call.count < MaxDetectCalls
    /\ call' = [op |-> op, arg |-> arg, raised |-> FALSE,
                count |-> call.count + 1]
    /\ now' = now + dt
    /\ UNCHANGED <<filters, calibration_offset, is_calibrated,
                   fist_threshold, watch, track, frames, messages, sessions,
                   calls>>

DetectPinchCall ==
    \E label \in Labels, f \in DetectFingers, landmarks \in DetectPoses,
       dt \in DetectSteps :
        /\ Detected("detect_pinch", <<label, f>>, dt)
        /\ states' = [states EXCEPT ![label].fingers[f] =
                         detect_pinch(@, landmarks, f, finger_map[f],
                                      now + dt).st]
        /\ UNCHANGED <<hands_data, results>>

DetectDwellCall ==
    \E label \in Labels, f \in DetectFingers, landmarks \in DetectPoses,
       dt \in DetectSteps :
        /\ Detected("detect_dwell", <<label, f>>, dt)
        /\ states' = [states EXCEPT ![label].fingers[f] =
                         detect_dwell(@, landmarks[finger_map[f]],
                                      now + dt).st]
        /\ UNCHANGED <<hands_data, results>>

DetectFistCall ==
    \E label \in Labels, landmarks \in DetectPoses, dt \in DetectSteps :
        /\ Detected("detect_fist", <<label>>, dt)
        /\ states' = [states EXCEPT ![label] =
                         detect_fist(@, landmarks, now + dt).st]
        /\ UNCHANGED <<hands_data, results>>

DetectRecognizeCall ==
    \E hd \in HandsData(DetectPoses), dt \in DetectSteps :
        LET r == recognize(states, hd, Clock(now + dt, 0))
        IN  /\ Detected("recognize", <<>>, dt)
            /\ states' = r.states
            /\ results' = r.results
            /\ hands_data' = hd

NextDetect ==
    DetectPinchCall \/ DetectDwellCall \/ DetectFistCall
        \/ DetectRecognizeCall

SpecDetect == Init /\ [][NextDetect]_vars

\* the fields of a slot or of a finger's state
SamePinch(a, b) ==
    a.pinch_start_time = b.pinch_start_time /\ a.was_pinching = b.was_pinching
SameDwell(a, b) ==
    a.dwell_position = b.dwell_position
        /\ a.dwell_start_time = b.dwell_start_time
SameFist(a, b) ==
    a.fist_start_time = b.fist_start_time /\ a.was_fist = b.was_fist
\* the observations of hd that carry the label
OfLabel(hd, label) == SelectSeq(hd, LAMBDA hand : hand.label = label)

====
